---- MODULE Spec2Model ----
(***************************************************************************)
(* Cluster monitoring and server selection of pymongo (development         *)
(* snapshot): pymongo/cluster.py, pymongo/cluster_description.py,          *)
(* pymongo/server_description.py, pymongo/ismaster.py, pymongo/settings.py *)
(* and pymongo/monitor.py.                                                 *)
(*                                                                         *)
(* Reading of the sources taken here:                                      *)
(*  - dictionaries are iterated as in Python 2 (values() and items() are   *)
(*    list snapshots in an arbitrary order), the interpreter the test      *)
(*    suite is written for;                                                *)
(*  - update_cluster_description mutates the description it is given and   *)
(*    Cluster.on_change installs the value it binds to `cd`; the model     *)
(*    takes that value to be the mutated description;                      *)
(*  - Cluster._update_servers walks the (address, description) pairs of    *)
(*    the description.                                                     *)
(* The logic inside each function is modelled statement by statement.      *)
(***************************************************************************)
EXTENDS Integers, FiniteSets, Sequences, TLC

VARIABLES
    settings,             \* ClusterSettings: [seeds, set_name]
    cluster_description,  \* Cluster._cluster_description
    servers,              \* Cluster._servers: address -> Server
    opened,               \* Cluster._opened
    lock,                 \* Cluster._lock: its holder, or None
    now,                  \* time.time()
    pc,                   \* caller -> position in select_servers / open
    call,                 \* caller -> locals of its select_servers call
    outcome,              \* caller -> result or exception of its last call
    last_change,          \* log of the last on_change or parse
    description_id,       \* identity of the object in _cluster_description
    reader,               \* a thread that read Cluster.description
    monitor               \* the Monitor of MonitorAddress and its thread

vars == <<settings, cluster_description, servers, opened, lock, now, pc,
          call, outcome, last_change, description_id, reader, monitor>>

----------------------------------------------------------------------------
(* Bounds of the model. *)

MaxTime == 2

Callers == {"t1", "t2"}

Addrs == {"a", "b", "c"}
SeedLists == {{"a"}, {"a", "b"}}

None == "None"
NoVersion == -1
NoRtt == -1

SetNames == {"rs", "other"}

----------------------------------------------------------------------------
(* pymongo/server_description.py *)

Unknown == "Unknown"
Mongos == "Mongos"
RSPrimary == "RSPrimary"
RSSecondary == "RSSecondary"
RSArbiter == "RSArbiter"
RSOther == "RSOther"
RSGhost == "RSGhost"
Standalone == "Standalone"

ServerType ==
    {Unknown, Mongos, RSPrimary, RSSecondary, RSArbiter, RSOther, RSGhost,
     Standalone}

\* ServerDescription(address, ...): the constructor with its defaults.
ServerDescriptionOf(address, server_type, round_trip_times, all_hosts, set_name, min_wire_version, max_wire_version) ==
    [address |-> address,
     server_type |-> server_type,
     round_trip_times |-> round_trip_times,
     all_hosts |-> all_hosts,
     set_name |-> set_name,
     min_wire_version |-> min_wire_version,
     max_wire_version |-> max_wire_version]

\* ServerDescription(address): type Unknown, every other field None.
ServerDescription(address) ==
    ServerDescriptionOf(address, Unknown, NoRtt, {}, None, NoVersion,
                        NoVersion)

is_writable(sd) == sd.server_type \in {RSPrimary, Standalone, Mongos}

is_readable(sd) == sd.server_type = RSSecondary \/ is_writable(sd)

is_server_type_known(sd) == sd.server_type # Unknown

----------------------------------------------------------------------------
(* pymongo/cluster_description.py *)

Single == "Single"
ReplicaSetNoPrimary == "ReplicaSetNoPrimary"
ReplicaSetWithPrimary == "ReplicaSetWithPrimary"
Sharded == "Sharded"
ClusterUnknown == "ClusterUnknown"

ClusterType ==
    {Single, ReplicaSetNoPrimary, ReplicaSetWithPrimary, Sharded,
     ClusterUnknown}

\* Variant: one seed is enough, whatever the set name.
direct_one_seed(s) == Cardinality(s.seeds) = 1

\* settings.direct
direct(s) == Cardinality(s.seeds) = 1 /\ s.set_name = None

\* ClusterDescription(cluster_type, server_descriptions, set_name).  `type`
\* is the attribute that _update_rs_with_primary_from_primary assigns; a new
\* object does not have it.
ClusterDescription(cluster_type, sds, set_name) ==
    [cluster_type |-> cluster_type,
     set_name |-> set_name,
     server_descriptions |-> sds,
     type |-> None]

create_cluster_description(s) ==
    LET cluster_type ==
            IF direct(s) THEN Single
            ELSE IF s.set_name # None THEN ReplicaSetNoPrimary
            ELSE ClusterUnknown
    IN  ClusterDescription(cluster_type,
                           [a \in s.seeds |-> ServerDescription(a)],
                           s.set_name)

addresses(cd) == DOMAIN cd.server_descriptions

has_server(cd, address) == address \in addresses(cd)

add_server_description(cd, sd) ==
    [cd EXCEPT !.server_descriptions =
        [a \in DOMAIN @ \cup {sd.address} |->
            IF a = sd.address THEN sd ELSE @[a]]]

replace_server_description(cd, sd) ==
    [cd EXCEPT !.server_descriptions =
        [a \in DOMAIN @ |-> IF a = sd.address THEN sd ELSE @[a]]]

\* Variant: the address is kept.
remove_address_keeps(cd, address) == cd

remove_address(cd, address) ==
    [cd EXCEPT !.server_descriptions =
        [a \in DOMAIN @ \ {address} |-> @[a]]]

known_servers(cd) ==
    {a \in addresses(cd) : is_server_type_known(cd.server_descriptions[a])}

\* Variant: a secondary makes the cluster a replica set with a primary.
cluster_types_secondary_as_primary(server_type) ==
    CASE server_type = Mongos -> Sharded
      [] server_type = RSPrimary -> ReplicaSetWithPrimary
      [] server_type = RSSecondary -> ReplicaSetWithPrimary
      [] server_type = RSArbiter -> ReplicaSetNoPrimary
      [] server_type = RSOther -> ReplicaSetNoPrimary

\* Variant: an arbiter makes the cluster a replica set with a primary.
cluster_types_arbiter_as_primary(server_type) ==
    CASE server_type = Mongos -> Sharded
      [] server_type = RSPrimary -> ReplicaSetWithPrimary
      [] server_type = RSSecondary -> ReplicaSetNoPrimary
      [] server_type = RSArbiter -> ReplicaSetWithPrimary
      [] server_type = RSOther -> ReplicaSetNoPrimary

\* cluster_types: the new ClusterType of an Unknown cluster.
cluster_types(server_type) ==
    CASE server_type = Mongos -> Sharded
      [] server_type = RSPrimary -> ReplicaSetWithPrimary
      [] server_type = RSSecondary -> ReplicaSetNoPrimary
      [] server_type = RSArbiter -> ReplicaSetNoPrimary
      [] server_type = RSOther -> ReplicaSetNoPrimary

primaries(cd) ==
    {a \in addresses(cd) : cd.server_descriptions[a].server_type = RSPrimary}

has_primary(cd) ==
    \E a \in addresses(cd) : cd.server_descriptions[a].server_type = RSPrimary

\* Variant: the cluster type is left as it is.
_check_has_primary_keeps(cd) == cd

_check_has_primary(cd) ==
    IF has_primary(cd) THEN cd
    ELSE [cd EXCEPT !.cluster_type = ReplicaSetNoPrimary]

\* Variant: a reply that is not from a mongos makes the cluster Unknown.
_update_sharded_forgets(cd, sd) ==
    IF sd.server_type # Mongos
    THEN [remove_address(cd, sd.address) EXCEPT !.cluster_type = ClusterUnknown]
    ELSE cd

\* Variant: a server that is not a mongos is kept.
_update_sharded_keeps(cd, sd) == cd

_update_sharded(cd, sd) ==
    IF sd.server_type # Mongos THEN remove_address(cd, sd.address) ELSE cd

\* Variant: no prior primary is looked for.
prior_primaries_none(cd, sd) == {None}

\* The servers other than sd's that the first loop of
\* _update_rs_with_primary_from_primary can meet first with type RSPrimary;
\* None when there is none.  The loop resets that one and breaks.
prior_primaries(cd, sd) ==
    LET others == {a \in addresses(cd) :
                      /\ a # sd.address
                      /\ cd.server_descriptions[a].server_type = RSPrimary}
    IN  IF others = {} THEN {None} ELSE others

\* Variant: a discovered host is added with the type RSOther.
RECURSIVE add_hosts_as_other(_, _)
add_hosts_as_other(cd, hosts) ==
    IF hosts = {} THEN cd
    ELSE LET h == CHOOSE x \in hosts : TRUE
             cd1 == IF ~has_server(cd, h)
                    THEN add_server_description(
                             cd, [ServerDescription(h) EXCEPT
                                     !.server_type = RSOther])
                    ELSE cd
         IN  add_hosts_as_other(cd1, hosts \ {h})

RECURSIVE add_hosts(_, _)
add_hosts(cd, hosts) ==
    IF hosts = {} THEN cd
    ELSE LET h == CHOOSE x \in hosts : TRUE
             cd1 == IF ~has_server(cd, h)
                    THEN add_server_description(cd, ServerDescription(h))
                    ELSE cd
         IN  add_hosts(cd1, hosts \ {h})

\* Variant: no host is removed.
remove_hosts_not_in_keeps(cd, olds, all_hosts) == cd

RECURSIVE remove_hosts_not_in(_, _, _)
remove_hosts_not_in(cd, olds, all_hosts) ==
    IF olds = {} THEN cd
    ELSE LET o == CHOOSE x \in olds : TRUE
             cd1 == IF o \notin all_hosts THEN remove_address(cd, o) ELSE cd
         IN  remove_hosts_not_in(cd1, olds \ {o}, all_hosts)

\* Variant: a cluster without a set name does not adopt the primary's.
_update_rs_with_primary_from_primary_no_adopt(cd, sd, prior) ==
    IF cd.set_name # sd.set_name
    THEN [remove_address(cd, sd.address) EXCEPT !.type = ReplicaSetNoPrimary]
    ELSE LET c1 == IF prior # None
                   THEN replace_server_description(
                            cd, ServerDescription(prior))
                   ELSE cd
             c2 == add_hosts(c1, sd.all_hosts)
         IN  remove_hosts_not_in(c2, addresses(c2), sd.all_hosts)

_update_rs_with_primary_from_primary(cd, sd, prior) ==
    LET discover(c0) ==
            LET c1 == IF prior # None
                      THEN replace_server_description(
                               c0, ServerDescription(prior))
                      ELSE c0
                c2 == add_hosts(c1, sd.all_hosts)
            IN  remove_hosts_not_in(c2, addresses(c2), sd.all_hosts)
    IN  IF cd.set_name = None
        THEN discover([cd EXCEPT !.set_name = sd.set_name])
        ELSE IF cd.set_name # sd.set_name
        THEN [remove_address(cd, sd.address) EXCEPT
                 !.type = ReplicaSetNoPrimary]
        ELSE discover(cd)

\* Variant: a member with another set name is kept.
_update_rs_with_primary_from_member_keeps(cd, sd) == _check_has_primary(cd)

\* Variant: the hosts the member lists are added.
_update_rs_with_primary_from_member_discovers(cd, sd) ==
    _check_has_primary(
        IF cd.set_name # sd.set_name
        THEN remove_address(cd, sd.address)
        ELSE add_hosts(cd, sd.all_hosts))

_update_rs_with_primary_from_member(cd, sd) ==
    _check_has_primary(
        IF cd.set_name # sd.set_name
        THEN remove_address(cd, sd.address)
        ELSE cd)

\* Variant: the set name of every member reply is taken.
_update_rs_without_primary_renames(cd, sd) ==
    add_hosts([cd EXCEPT !.set_name = sd.set_name], sd.all_hosts)

\* Variant: the hosts the member does not list are removed.
_update_rs_without_primary_authoritative(cd, sd) ==
    IF cd.set_name = None \/ cd.set_name = sd.set_name
    THEN LET c == add_hosts([cd EXCEPT !.set_name = sd.set_name],
                            sd.all_hosts)
         IN  remove_hosts_not_in(c, addresses(c), sd.all_hosts)
    ELSE remove_address(cd, sd.address)

_update_rs_without_primary(cd, sd) ==
    IF cd.set_name = None
    THEN add_hosts([cd EXCEPT !.set_name = sd.set_name], sd.all_hosts)
    ELSE IF cd.set_name # sd.set_name
    THEN remove_address(cd, sd.address)
    ELSE add_hosts(cd, sd.all_hosts)

\* update_cluster_description, the block for ClusterType.Unknown.
update_from_unknown(cd, sd) ==
    IF cd.cluster_type = ClusterUnknown
    THEN IF sd.server_type = Standalone
         THEN remove_address(cd, sd.address)
         ELSE IF sd.server_type \notin {Unknown, RSGhost}
         THEN [cd EXCEPT !.cluster_type = cluster_types(sd.server_type)]
         ELSE cd
    ELSE cd

\* update_cluster_description, the if/elif chain on the cluster type.
update_by_cluster_type(cd, sd, prior) ==
    LET server_type == sd.server_type
    IN  IF cd.cluster_type = Sharded THEN _update_sharded(cd, sd)
        ELSE IF cd.cluster_type = ReplicaSetNoPrimary
        THEN IF server_type \in {Standalone, Mongos}
             THEN remove_address(cd, sd.address)
             ELSE IF server_type = RSPrimary
             THEN _update_rs_with_primary_from_primary(
                      [cd EXCEPT !.cluster_type = ReplicaSetWithPrimary],
                      sd, prior)
             ELSE IF server_type \in {RSSecondary, RSArbiter, RSOther}
             THEN _update_rs_without_primary(cd, sd)
             ELSE cd
        ELSE IF cd.cluster_type = ReplicaSetWithPrimary
        THEN IF server_type \in {Standalone, Mongos}
             THEN _check_has_primary(remove_address(cd, sd.address))
             ELSE IF server_type = RSPrimary
             THEN _update_rs_with_primary_from_primary(cd, sd, prior)
             ELSE IF server_type \in {RSSecondary, RSArbiter, RSOther}
             THEN _update_rs_with_primary_from_member(cd, sd)
             ELSE _check_has_primary(cd)
        ELSE cd

\* Variant: a Single cluster is updated like an Unknown one.
update_cluster_description_single_as_unknown(cd0, sd, prior) ==
    LET cd == replace_server_description(cd0, sd)
        cd1 == IF cd.cluster_type = Single
               THEN [cd EXCEPT !.cluster_type = ClusterUnknown]
               ELSE cd
    IN  update_by_cluster_type(update_from_unknown(cd1, sd), sd, prior)

update_cluster_description(cd0, sd, prior) ==
    LET cd == replace_server_description(cd0, sd)
    IN  IF cd.cluster_type = Single
        THEN cd
        ELSE update_by_cluster_type(update_from_unknown(cd, sd), sd, prior)

\* The assertions and lookups on the path of update_cluster_description: each
\* operator is TRUE when the statements it follows raise nothing.

\* assert self.has_server(address), in replace_server_description.
replace_server_description_asserts(cd, sd) == has_server(cd, sd.address)

\* assert not self.has_server(address), in add_server_description.
add_server_description_asserts(cd, sd) == ~has_server(cd, sd.address)

\* The discover loops: add_server_description for each host that the
\* description does not hold.
add_hosts_asserts(cd, hosts) ==
    \A h \in hosts :
        ~has_server(cd, h) =>
            add_server_description_asserts(cd, ServerDescription(h))

\* assert cd.cluster_type == ClusterType.ReplicaSetWithPrimary
_check_has_primary_asserts(cd) == cd.cluster_type = ReplicaSetWithPrimary

_update_rs_with_primary_from_primary_asserts(cd, sd, prior) ==
    (cd.set_name = None \/ cd.set_name = sd.set_name) =>
        /\ prior # None =>
               replace_server_description_asserts(cd, ServerDescription(prior))
        /\ add_hosts_asserts(cd, sd.all_hosts)

\* assert cd.set_name is not None, then _check_has_primary.
_update_rs_with_primary_from_member_asserts(cd, sd) ==
    /\ cd.set_name # None
    /\ _check_has_primary_asserts(
           IF cd.set_name # sd.set_name
           THEN remove_address(cd, sd.address)
           ELSE cd)

_update_rs_without_primary_asserts(cd, sd) ==
    (cd.set_name = None \/ cd.set_name = sd.set_name) =>
        add_hosts_asserts(cd, sd.all_hosts)

\* cluster_types[server_type] finds the key.
update_from_unknown_asserts(cd, sd) ==
    (/\ cd.cluster_type = ClusterUnknown
     /\ sd.server_type \notin {Standalone, Unknown, RSGhost}) =>
        sd.server_type \in {Mongos, RSPrimary, RSSecondary, RSArbiter, RSOther}

update_by_cluster_type_asserts(cd, sd, prior) ==
    LET server_type == sd.server_type
    IN  IF cd.cluster_type = ReplicaSetNoPrimary
        THEN IF server_type = RSPrimary
             THEN _update_rs_with_primary_from_primary_asserts(
                      [cd EXCEPT !.cluster_type = ReplicaSetWithPrimary],
                      sd, prior)
             ELSE IF server_type \in {RSSecondary, RSArbiter, RSOther}
             THEN _update_rs_without_primary_asserts(cd, sd)
             ELSE TRUE
        ELSE IF cd.cluster_type = ReplicaSetWithPrimary
        THEN IF server_type \in {Standalone, Mongos}
             THEN _check_has_primary_asserts(remove_address(cd, sd.address))
             ELSE IF server_type = RSPrimary
             THEN _update_rs_with_primary_from_primary_asserts(cd, sd, prior)
             ELSE IF server_type \in {RSSecondary, RSArbiter, RSOther}
             THEN _update_rs_with_primary_from_member_asserts(cd, sd)
             ELSE _check_has_primary_asserts(cd)
        ELSE TRUE

\* update_cluster_description raises nothing.
update_cluster_description_asserts(cd0, sd, prior) ==
    /\ replace_server_description_asserts(cd0, sd)
    /\ LET cd == replace_server_description(cd0, sd)
       IN  cd.cluster_type # Single =>
               /\ update_from_unknown_asserts(cd, sd)
               /\ update_by_cluster_type_asserts(
                      update_from_unknown(cd, sd), sd, prior)

----------------------------------------------------------------------------
(* pymongo/common.py (not in this snapshot): the wire protocol range the
   driver supports. *)

MIN_SUPPORTED_WIRE_VERSION == 0
MAX_SUPPORTED_WIRE_VERSION == 5

\* Variant: only a server that is too old is rejected.
server_incompatible_too_old_only(s) ==
    /\ s.max_wire_version # NoVersion
    /\ s.max_wire_version < MIN_SUPPORTED_WIRE_VERSION

\* The body of the loop of ClusterDescription.check_compatible for one server.
server_incompatible(s) ==
    LET server_too_new ==
            /\ s.min_wire_version # NoVersion
            /\ s.min_wire_version > MAX_SUPPORTED_WIRE_VERSION
        server_too_old ==
            /\ s.max_wire_version # NoVersion
            /\ s.max_wire_version < MIN_SUPPORTED_WIRE_VERSION
    IN  server_too_new \/ server_too_old

\* ClusterDescription.check_compatible: TRUE when it raises ConfigurationError.
check_compatible_raises(cd) ==
    \E a \in addresses(cd) : server_incompatible(cd.server_descriptions[a])

----------------------------------------------------------------------------
(* Selectors: functions from the known servers to some of them.  A selector
   is named; apply_named gives the addresses of the descriptions it keeps. *)

any_server_selector(cd, known) == known

writable_server_selector(cd, known) ==
    {a \in known : is_writable(cd.server_descriptions[a])}

readable_server_selector(cd, known) ==
    {a \in known : is_readable(cd.server_descriptions[a])}

Selectors == {"any", "writable"}

apply_named(selector, cd, known) ==
    CASE selector = "any" -> any_server_selector(cd, known)
      [] selector = "writable" -> writable_server_selector(cd, known)
      [] selector = "readable" -> readable_server_selector(cd, known)

----------------------------------------------------------------------------
(* pymongo/cluster.py *)

\* Variant: the selector is applied to a Single cluster too.
_apply_selector_always(cd, selector) ==
    apply_named(selector, cd, known_servers(cd))

\* Cluster._apply_selector
_apply_selector(cd, selector) ==
    IF cd.cluster_type = Single
    THEN known_servers(cd)
    ELSE apply_named(selector, cd, known_servers(cd))

\* Cluster._create_pool: a new pool for the address.  `user` tells the pool
\* made for the Monitor from the one made for the Server.
Pool(address, user) == [address |-> address, user |-> user, resets |-> 0]

\* m = monitor_class(address, self, self._create_pool(address), ...), then
\* Server(sd, self._create_pool(address), m) followed by Server.open(), which
\* starts the Monitor.
Server(sd) ==
    [description |-> sd,
     monitor |-> "started",
     monitor_pool |-> Pool(sd.address, "monitor"),
     pool |-> Pool(sd.address, "server")]

\* Pool.reset
reset(pool) == [pool EXCEPT !.resets = @ + 1]

\* Variant: only the Monitor is closed.
Server_close_monitor_only(server) ==
    [server EXCEPT !.monitor = "stopped", !.monitor_pool = reset(@)]

\* Server.close: Monitor.close (the stop flag is set, the Monitor's pool is
\* reset and its thread notified), then the Server's pool is reset.
Server_close(server) ==
    [server EXCEPT
        !.monitor = "stopped",
        !.monitor_pool = reset(@),
        !.pool = reset(@)]

\* Cluster._update_servers, first loop: the addresses that get a new Server.
created_servers(cd, srv) == {a \in addresses(cd) : a \notin DOMAIN srv}

\* Cluster._update_servers, second loop: the Servers that are closed and
\* popped, as close() leaves them.
closed_servers(cd, srv) ==
    [a \in {x \in DOMAIN srv : ~has_server(cd, x)} |-> Server_close(srv[a])]

\* Variant: the Servers of removed addresses are kept.
_update_servers_keeps_removed(cd, srv) ==
    [a \in addresses(cd) \cup DOMAIN srv |->
        IF a \notin DOMAIN srv
        THEN Server(cd.server_descriptions[a])
        ELSE IF a \in addresses(cd)
        THEN [srv[a] EXCEPT !.description = cd.server_descriptions[a]]
        ELSE srv[a]]

\* Cluster._update_servers: the new Server map.
_update_servers(cd, srv) ==
    [a \in addresses(cd) |->
        IF a \notin DOMAIN srv
        THEN Server(cd.server_descriptions[a])
        ELSE [srv[a] EXCEPT !.description = cd.server_descriptions[a]]]

\* Variant: the Server is looked up among the seeds' Servers only.
get_servers_of_seeds(srv, selected) ==
    [a \in selected |->
        IF a \in DOMAIN srv /\ a \in settings.seeds THEN "Server" ELSE None]

\* [self.get_server_by_address(sd.address) for sd in server_descriptions]:
\* the Server of each selected address, or None where the map has none.
get_servers(srv, selected) ==
    [a \in selected |-> IF a \in DOMAIN srv THEN "Server" ELSE None]

\* Variant: no waiter is woken.
notify_nobody(p) == p

\* Variant: one waiter is woken, as by Condition.notify.
notify_one(p) ==
    IF \E t \in DOMAIN p : p[t] = "waiting"
    THEN LET w == CHOOSE t \in DOMAIN p : p[t] = "waiting"
         IN  [p EXCEPT ![w] = "notified"]
    ELSE p

\* Condition.notify_all: every waiter is woken.
notify_all(p) ==
    [t \in DOMAIN p |-> IF p[t] = "waiting" THEN "notified" ELSE p[t]]

NoCall ==
    [selector |-> None, end_time |-> 0, now |-> 0, wait_until |-> 0,
     server_descriptions |-> {}]

NoOutcome == [kind |-> None]

NoChange == [op |-> None]

----------------------------------------------------------------------------
(* Inputs: the ServerDescriptions a probe can produce for an address (see
   get_server_type: a replica-set member type comes with a set name). *)

HostLists == {{"a"}, {"a", "b"}, {"b", "c"}}
ChangeAddrs == {"a", "b"}
ChangeHostLists == {{"a"}, {"a", "b"}}
ChangeTypes == {Unknown, Standalone, RSPrimary, RSSecondary}
WireRanges == {<<0, 0>>, <<11, 12>>, <<-3, -2>>}
WaitTimes == {0, 1}

\* RSPrimary and RSSecondary replies carry every host list of hostLists,
\* RSArbiter and RSOther replies one of them.
ProbeResults(a, hostLists, wires) ==
    {ServerDescription(a)}
    \cup {ServerDescriptionOf(a, t, 0, {}, None, w[1], w[2]) :
            t \in {Standalone, Mongos, RSGhost}, w \in wires}
    \cup {ServerDescriptionOf(a, x[1], 0, x[2], x[3], w[1], w[2]) :
            x \in {RSPrimary, RSSecondary} \X hostLists \X SetNames,
            w \in wires}
    \cup {ServerDescriptionOf(a, x[1], 0, {"a", "b"}, x[2], w[1], w[2]) :
            x \in {RSArbiter, RSOther} \X SetNames, w \in wires}

\* The probe results delivered while callers select servers.
ChangeInputs(a) ==
    {sd \in ProbeResults(a, ChangeHostLists, WireRanges) :
        sd.server_type \in ChangeTypes /\ sd.set_name \in {None, "rs"}}

----------------------------------------------------------------------------
(* The state machine. *)

EmptyMap == [a \in {} |-> None]

\* No thread holds a description.
NoReader == [id |-> -1]

\* The address that the modelled Monitor probes.
MonitorAddress == "a"

\* Monitor.__init__, with the locals of the round of call_ismaster_with_retry
\* that run() is in: attempts made, attempts failed, calls of
\* cluster.reset_pool, and the description the round returns; lock is the
\* thread that holds Monitor._lock.
NewMonitor ==
    [pc |-> "new",
     server_description |-> ServerDescription(MonitorAddress),
     stopped |-> FALSE,
     pool_id |-> 0,
     retry |-> FALSE,
     attempts |-> 0,
     errors |-> 0,
     resets |-> 0,
     result |-> ServerDescription(MonitorAddress),
     check_requested |-> FALSE,
     woken |-> None,
     close_pc |-> None,
     closes |-> 0,
     lock |-> None]

Init ==
    /\ settings \in [seeds : SeedLists, set_name : {None, "rs"}]
    /\ cluster_description = create_cluster_description(settings)
    /\ servers = EmptyMap
    /\ opened = FALSE
    /\ lock = None
    /\ now = 0
    /\ pc = [t \in Callers |-> "idle"]
    /\ call = [t \in Callers |-> NoCall]
    /\ outcome = [t \in Callers |-> NoOutcome]
    /\ last_change = NoChange
    /\ description_id = 0
    /\ reader = NoReader
    /\ monitor = NewMonitor

\* Variant: open() does not look at the opened flag.
Open_unchecked(t) ==
    /\ pc[t] = "idle"
    /\ lock = None
    /\ opened' = TRUE
    /\ servers' = _update_servers(cluster_description, servers)
    /\ outcome' = [outcome EXCEPT ![t] = [kind |-> "opened"]]
    /\ UNCHANGED <<description_id, reader, monitor>>
    /\ UNCHANGED <<settings, cluster_description, lock, now, pc, call,
                   last_change>>

\* Cluster.open
Open(t) ==
    /\ pc[t] = "idle"
    /\ lock = None
    /\ IF opened
       THEN /\ outcome' = [outcome EXCEPT ![t] = [kind |-> "InvalidOperation"]]
            /\ UNCHANGED <<opened, servers>>
       ELSE /\ opened' = TRUE
            /\ servers' = _update_servers(cluster_description, servers)
            /\ outcome' = [outcome EXCEPT ![t] = [kind |-> "opened"]]
    /\ UNCHANGED <<description_id, reader, monitor>>
    /\ UNCHANGED <<settings, cluster_description, lock, now, pc, call,
                   last_change>>

\* Cluster.close: raise NotImplementedError().
Close(t) ==
    /\ pc[t] = "idle"
    /\ lock = None
    /\ outcome' = [outcome EXCEPT ![t] = [kind |-> "NotImplementedError"]]
    /\ UNCHANGED <<description_id, reader, monitor>>
    /\ UNCHANGED <<settings, cluster_description, servers, opened, lock, now,
                   pc, call, last_change>>

\* Cluster.on_change: the test that drops the description of a server that
\* is no longer in the cluster description.
\* Variant: no description is dropped.
on_change_ignores_nothing(cd, sd) == FALSE

on_change_ignores(cd, sd) == ~has_server(cd, sd.address)

\* Cluster.on_change
on_change(sd) ==
    /\ lock = None
    /\ IF on_change_ignores(cluster_description, sd)
       THEN UNCHANGED <<cluster_description, servers, pc>>
       ELSE \E prior \in prior_primaries(cluster_description, sd) :
            LET cd == update_cluster_description(
                          cluster_description, sd, prior)
            IN  /\ cluster_description' = cd
                /\ servers' = _update_servers(cd, servers)
                /\ pc' = notify_all(pc)
    /\ description_id' = description_id
    /\ UNCHANGED <<settings, opened, lock, now, call, outcome>>

\* on_change called by a Monitor (or a test) while callers select servers.
OnChange ==
    \E a \in ChangeAddrs :
        \E sd \in ChangeInputs(a) :
            /\ on_change(sd)
            /\ UNCHANGED <<last_change, reader, monitor>>

\* on_change with every probe result, logged.
OnChangeLogged ==
    \E a \in Addrs : \E sd \in ProbeResults(a, HostLists, {<<0, 0>>}) :
        /\ on_change(sd)
        /\ UNCHANGED <<reader, monitor>>
        /\ last_change' =
               [op |-> "on_change", sd |-> sd,
                accepted |-> has_server(cluster_description, sd.address),
                primaries |-> primaries(cluster_description),
                cluster_type |-> cluster_description.cluster_type,
                set_name |-> cluster_description.set_name]

\* Cluster.select_servers, from taking the lock to the first pass of the loop.
SelectEnter(t) ==
    /\ pc[t] = "idle"
    /\ lock = None
    /\ \E selector \in Selectors, server_wait_time \in WaitTimes :
        /\ now + server_wait_time < MaxTime
        /\ IF check_compatible_raises(cluster_description)
           THEN /\ outcome' = [outcome EXCEPT
                                  ![t] = [kind |-> "ConfigurationError"]]
                /\ UNCHANGED <<lock, pc, call>>
           ELSE /\ lock' = t
                /\ pc' = [pc EXCEPT ![t] = "loop"]
                /\ call' = [call EXCEPT ![t] =
                       [selector |-> selector,
                        end_time |-> now + server_wait_time,
                        now |-> now,
                        wait_until |-> 0,
                        server_descriptions |->
                            _apply_selector(cluster_description, selector)]]
                /\ outcome' = [outcome EXCEPT ![t] = NoOutcome]
    /\ UNCHANGED <<description_id, reader, monitor>>
    /\ UNCHANGED <<settings, cluster_description, servers, opened, now,
                   last_change>>

\* One pass of the loop of select_servers: return, raise, or wait.
SelectLoop(t) ==
    /\ pc[t] = "loop"
    /\ lock = t
    /\ IF call[t].server_descriptions # {}
       THEN /\ outcome' = [outcome EXCEPT ![t] =
                   [kind |-> "servers",
                    servers |-> get_servers(servers,
                                            call[t].server_descriptions)]]
            /\ pc' = [pc EXCEPT ![t] = "idle"]
            /\ call' = [call EXCEPT ![t] = NoCall]
       ELSE IF call[t].now > call[t].end_time
       THEN /\ outcome' = [outcome EXCEPT
                              ![t] = [kind |-> "ConnectionFailure"]]
            /\ pc' = [pc EXCEPT ![t] = "idle"]
            /\ call' = [call EXCEPT ![t] = NoCall]
       ELSE \* _request_check_all(), then self._condition.wait(timeout)
            /\ pc' = [pc EXCEPT ![t] = "waiting"]
            /\ call' = [call EXCEPT ![t].wait_until =
                           now + (call[t].end_time - call[t].now)]
            /\ UNCHANGED outcome
    /\ lock' = None
    /\ UNCHANGED <<description_id, reader, monitor>>
    /\ UNCHANGED <<settings, cluster_description, servers, opened, now,
                   last_change>>

\* Variant: the wait has no timeout.
WaitTimeout_never(t) == FALSE /\ UNCHANGED vars

\* Condition.wait(timeout) times out.
WaitTimeout(t) ==
    /\ pc[t] = "waiting"
    /\ now >= call[t].wait_until
    /\ pc' = [pc EXCEPT ![t] = "notified"]
    /\ UNCHANGED <<description_id, reader, monitor>>
    /\ UNCHANGED <<settings, cluster_description, servers, opened, lock, now,
                   call, outcome, last_change>>

\* Condition.wait returns: the lock is taken again, then the time is read
\* and the selector applied.
SelectWake(t) ==
    /\ pc[t] = "notified"
    /\ lock = None
    /\ lock' = t
    /\ pc' = [pc EXCEPT ![t] = "loop"]
    /\ call' = [call EXCEPT
                   ![t].now = now,
                   ![t].server_descriptions =
                       _apply_selector(cluster_description, call[t].selector)]
    /\ UNCHANGED <<description_id, reader, monitor>>
    /\ UNCHANGED <<settings, cluster_description, servers, opened, now,
                   outcome, last_change>>

\* time.time() advances.  The clock stops at MaxTime, or later when a
\* waiter's timeout is still to come.
Tick ==
    /\ \/ now < MaxTime
       \/ \E t \in Callers : pc[t] = "waiting" /\ now < call[t].wait_until
    /\ now' = now + 1
    /\ UNCHANGED <<description_id, reader, monitor>>
    /\ UNCHANGED <<settings, cluster_description, servers, opened, lock, pc,
                   call, outcome, last_change>>

\* The steps of the callers in T.
CallerStep(T) ==
    \/ \E t \in T : Open(t)
    \/ \E t \in T : Close(t)
    \/ \E t \in T : SelectEnter(t)
    \/ \E t \in T : SelectLoop(t)
    \/ \E t \in T : WaitTimeout(t)
    \/ \E t \in T : SelectWake(t)

\* One application thread, the Monitors' on_change calls, and the clock.
Next ==
    \/ CallerStep({"t1"})
    \/ OnChange
    \/ Tick

Spec == Init /\ [][Next]_vars

\* The threads are scheduled fairly and the clock advances; nothing is
\* assumed of the Monitors.
FairSpec ==
    /\ Spec
    /\ WF_vars(Tick)
    /\ WF_vars(SelectLoop("t1"))
    /\ WF_vars(WaitTimeout("t1"))
    /\ WF_vars(SelectWake("t1"))

\* Every sequence of on_change calls on a seeded Cluster.
SpecTransition == Init /\ [][OnChangeLogged]_vars

\* The same, for the seeds of a replica set (a set name is configured).
InitReplicaSet == Init /\ settings.set_name # None

SpecReplicaSet == InitReplicaSet /\ [][OnChangeLogged]_vars

\* A Cluster constructed with a ReplicaSetNoPrimary description of the seeds,
\* with or without a set name (SetNameDiscoverySettings in the tests).
InitSetNameDiscovery ==
    /\ settings \in [seeds : SeedLists, set_name : {None, "rs"}]
    /\ cluster_description =
           ClusterDescription(ReplicaSetNoPrimary,
                              [a \in settings.seeds |-> ServerDescription(a)],
                              settings.set_name)
    /\ servers = EmptyMap
    /\ opened = FALSE
    /\ lock = None
    /\ now = 0
    /\ pc = [t \in Callers |-> "idle"]
    /\ call = [t \in Callers |-> NoCall]
    /\ outcome = [t \in Callers |-> NoOutcome]
    /\ last_change = NoChange
    /\ description_id = 0
    /\ reader = NoReader
    /\ monitor = NewMonitor

SpecSetNameDiscovery == InitSetNameDiscovery /\ [][OnChangeLogged]_vars

----------------------------------------------------------------------------
(* pymongo/monitor.py: one Monitor, its thread, and the threads that call
   request_check and close on it.  The Cluster is taken to offer the
   reset_pool(address) that call_ismaster_with_retry calls. *)

MaxCloses == 1

\* What one call of call_ismaster_once can produce for the Monitor: the
\* description built from a reply.  An attempt that fails returns None.
MonitorReplies ==
    {sd \in ProbeResults(MonitorAddress, ChangeHostLists, {<<0, 0>>}) :
        /\ sd.server_type \in {Standalone, RSPrimary, RSSecondary}
        /\ sd.set_name \in {None, "rs"}}

\* Variant: a second attempt is always allowed.
retry_always(server_description) == TRUE

\* retry = server_description.server_type != ServerType.Unknown
retry(server_description) == server_description.server_type # Unknown

\* Monitor.open: the thread starts.
MonitorOpen ==
    /\ monitor.pc = "new"
    /\ monitor' = [monitor EXCEPT !.pc = "loop"]
    /\ UNCHANGED <<settings, cluster_description, servers, opened, lock, now,
                   pc, call, outcome, last_change, description_id, reader>>

\* Variant: the loop does not test the stop flag.
MonitorLoop_ignores_stop ==
    /\ monitor.pc = "loop"
    /\ monitor' = [monitor EXCEPT
           !.pc = "attempt1",
           !.retry = retry(monitor.server_description),
           !.attempts = 0, !.errors = 0, !.resets = 0,
           !.check_requested = FALSE, !.woken = None]
    /\ UNCHANGED <<settings, cluster_description, servers, opened, lock, now,
                   pc, call, outcome, last_change, description_id, reader>>

\* Monitor.run: `while not self._stopped`, then the entry of
\* call_ismaster_with_retry.
MonitorLoop ==
    /\ monitor.pc = "loop"
    /\ IF monitor.stopped
       THEN monitor' = [monitor EXCEPT !.pc = "exited"]
       ELSE monitor' = [monitor EXCEPT
                !.pc = "attempt1",
                !.retry = retry(monitor.server_description),
                !.attempts = 0, !.errors = 0, !.resets = 0,
                !.check_requested = FALSE, !.woken = None]
    /\ UNCHANGED <<settings, cluster_description, servers, opened, lock, now,
                   pc, call, outcome, last_change, description_id, reader>>

\* call_ismaster_with_retry: the first call_ismaster_once.
Attempt1 ==
    /\ monitor.pc = "attempt1"
    /\ \/ \E sd \in MonitorReplies :
              monitor' = [monitor EXCEPT
                  !.pc = "deliver", !.attempts = 1, !.result = sd]
       \/ monitor' = [monitor EXCEPT
              !.pc = "reset_pool", !.attempts = 1, !.errors = 1]
    /\ UNCHANGED <<settings, cluster_description, servers, opened, lock, now,
                   pc, call, outcome, last_change, description_id, reader>>

\* call_ismaster_with_retry: cluster.reset_pool(address), then `if retry`.
\* Without a retry the function returns ServerDescription(address).
ResetPool ==
    /\ monitor.pc = "reset_pool"
    /\ monitor' = [monitor EXCEPT
           !.resets = @ + 1,
           !.pc = IF monitor.retry THEN "attempt2" ELSE "deliver",
           !.result = IF monitor.retry THEN @
                      ELSE ServerDescription(monitor.server_description.address)]
    /\ UNCHANGED <<settings, cluster_description, servers, opened, lock, now,
                   pc, call, outcome, last_change, description_id, reader>>

\* call_ismaster_with_retry: the second call_ismaster_once, whose result is
\* bound to server_description.  When it is None the last line evaluates
\* None.address: AttributeError leaves run(), which only catches
\* weakref.ReferenceError, and the thread ends.
Attempt2 ==
    /\ monitor.pc = "attempt2"
    /\ \/ \E sd \in MonitorReplies :
              monitor' = [monitor EXCEPT
                  !.pc = "deliver", !.attempts = 2, !.result = sd]
       \/ monitor' = [monitor EXCEPT
              !.pc = "crashed", !.attempts = 2, !.errors = 2]
    /\ UNCHANGED <<settings, cluster_description, servers, opened, lock, now,
                   pc, call, outcome, last_change, description_id, reader>>

\* Monitor.run: self._server_description = ...; cluster.on_change(...).
Deliver ==
    /\ monitor.pc = "deliver"
    /\ on_change(monitor.result)
    /\ monitor' = [monitor EXCEPT
           !.pc = "before_wait", !.server_description = monitor.result]
    /\ last_change' =
           [op |-> "on_change", sd |-> monitor.result,
            accepted |-> has_server(cluster_description,
                                    monitor.result.address),
            primaries |-> primaries(cluster_description),
            cluster_type |-> cluster_description.cluster_type,
            set_name |-> cluster_description.set_name]
    /\ UNCHANGED reader

\* Monitor.run: with self._lock: self._condition.wait(self._frequency).
EnterWait ==
    /\ monitor.pc = "before_wait"
    /\ monitor' = [monitor EXCEPT !.pc = "waiting"]
    /\ UNCHANGED <<settings, cluster_description, servers, opened, lock, now,
                   pc, call, outcome, last_change, description_id, reader>>

\* The wait ends after the whole heartbeat interval.
WakeTimeout ==
    /\ monitor.pc = "waiting"
    /\ monitor' = [monitor EXCEPT !.pc = "loop", !.woken = "timeout"]
    /\ UNCHANGED <<settings, cluster_description, servers, opened, lock, now,
                   pc, call, outcome, last_change, description_id, reader>>

\* Condition.notify on the Monitor's condition: a waiting thread is woken,
\* and nothing is kept for a thread that is not waiting.
notify(m) ==
    IF m.pc = "waiting" THEN [m EXCEPT !.pc = "loop", !.woken = "notify"]
    ELSE m

\* Monitor.request_check, called on a running Monitor by another thread.
\* check_requested records that a check is wanted, until the next probe
\* starts.
RequestCheck ==
    /\ monitor.pc \notin {"new", "exited", "crashed"}
    /\ monitor.close_pc = None
    /\ monitor' = [notify(monitor) EXCEPT !.check_requested = TRUE]
    /\ UNCHANGED <<settings, cluster_description, servers, opened, lock, now,
                   pc, call, outcome, last_change, description_id, reader>>

\* Monitor.close: self._stopped = True
MonitorCloseStop ==
    /\ monitor.pc # "new"
    /\ monitor.close_pc = None
    /\ monitor.closes < MaxCloses
    /\ monitor' = [monitor EXCEPT !.stopped = TRUE, !.close_pc = "reset"]
    /\ UNCHANGED <<settings, cluster_description, servers, opened, lock, now,
                   pc, call, outcome, last_change, description_id, reader>>

\* Monitor.close: self._pool.reset()
MonitorCloseReset ==
    /\ monitor.close_pc = "reset"
    /\ monitor' = [monitor EXCEPT !.pool_id = @ + 1, !.close_pc = "notify"]
    /\ UNCHANGED <<settings, cluster_description, servers, opened, lock, now,
                   pc, call, outcome, last_change, description_id, reader>>

\* Monitor.close: self.request_check()
MonitorCloseNotify ==
    /\ monitor.close_pc = "notify"
    /\ monitor' = [notify(monitor) EXCEPT
           !.close_pc = None, !.closes = @ + 1]
    /\ UNCHANGED <<settings, cluster_description, servers, opened, lock, now,
                   pc, call, outcome, last_change, description_id, reader>>

\* The steps of the Monitor's thread.
MonitorStep ==
    \/ MonitorOpen
    \/ MonitorLoop
    \/ Attempt1
    \/ ResetPool
    \/ Attempt2
    \/ Deliver
    \/ EnterWait
    \/ WakeTimeout

MonitorNext ==
    \/ MonitorStep
    \/ RequestCheck
    \/ MonitorCloseStop
    \/ MonitorCloseReset
    \/ MonitorCloseNotify

SpecMonitor == Init /\ [][MonitorNext]_vars

\* The Monitor's thread and the thread in close() are scheduled fairly, and
\* a heartbeat interval ends.
FairSpecMonitor ==
    /\ SpecMonitor
    /\ WF_vars(MonitorStep)
    /\ WF_vars(MonitorCloseReset)
    /\ WF_vars(MonitorCloseNotify)

----------------------------------------------------------------------------
(* Cluster.description, read by a thread while Monitors deliver changes. *)

\* Cluster.description: the thread gets the object itself; `seen` is what
\* the object held when it was returned.
ReadDescription ==
    /\ lock = None
    /\ reader' = [id |-> description_id, seen |-> cluster_description]
    /\ UNCHANGED <<settings, cluster_description, servers, opened, lock, now,
                   pc, call, outcome, last_change, description_id, monitor>>

\* The changes delivered while a thread holds a description.
SnapshotChange ==
    \E sd \in MonitorReplies \cup {ServerDescription(MonitorAddress)} :
        /\ on_change(sd)
        /\ UNCHANGED <<last_change, reader, monitor>>

SpecSnapshot == Init /\ [][ReadDescription \/ SnapshotChange]_vars

----------------------------------------------------------------------------
(* pymongo/ismaster.py: the ismaster replies and their classification. *)

\* A key that the reply does not have.
Absent == -1

\* The reply documents: `ok` absent or a number, the flags absent (FALSE) or
\* given, setName and msg absent or a string.
IsMasterDocs ==
    [ok : {Absent, 0, 1, 2},
     isreplicaset : BOOLEAN,
     setName : {None, "rs"},
     hidden : BOOLEAN,
     ismaster : BOOLEAN,
     secondary : BOOLEAN,
     arbiterOnly : BOOLEAN,
     msg : {None, "isdbgrid", "not paired"}]

\* Variant: a mongos is recognised before a replica set member.
get_server_type_mongos_first(doc) ==
    IF doc.ok = Absent \/ doc.ok = 0 THEN Unknown
    ELSE IF doc.isreplicaset THEN RSGhost
    ELSE IF doc.msg = "isdbgrid" THEN Mongos
    ELSE IF doc.setName # None
    THEN IF doc.hidden THEN RSOther
         ELSE IF doc.ismaster THEN RSPrimary
         ELSE IF doc.secondary THEN RSSecondary
         ELSE IF doc.arbiterOnly THEN RSArbiter
         ELSE RSOther
    ELSE Standalone

\* get_server_type: `not doc.get('ok')` holds for an absent or zero ok.
get_server_type(doc) ==
    IF doc.ok = Absent \/ doc.ok = 0 THEN Unknown
    ELSE IF doc.isreplicaset THEN RSGhost
    ELSE IF doc.setName # None
    THEN IF doc.hidden THEN RSOther
         ELSE IF doc.ismaster THEN RSPrimary
         ELSE IF doc.secondary THEN RSSecondary
         ELSE IF doc.arbiterOnly THEN RSArbiter
         ELSE RSOther
    ELSE IF doc.msg = "isdbgrid" THEN Mongos
    ELSE Standalone

\* IsMaster(doc), for a Cluster that was just constructed.
ParseIsMaster ==
    /\ \E doc \in IsMasterDocs :
           last_change' = [op |-> "ismaster", doc |-> doc,
                           server_type |-> get_server_type(doc)]
    /\ UNCHANGED <<settings, cluster_description, servers, opened, lock, now,
                   pc, call, outcome, description_id, reader, monitor>>

SpecParse == Init /\ [][ParseIsMaster]_vars

----------------------------------------------------------------------------
(* Two application threads in select_servers while the Monitor of the seed
   delivers its probe results. *)

InitTwoCallers == Init /\ settings = [seeds |-> {"a"}, set_name |-> "rs"]

\* on_change with a probe result of the seed.  `flip` tells one call from
\* the next one with the same result.
TwoCallerChange ==
    \E sd \in {r \in MonitorReplies : r.all_hosts \subseteq {MonitorAddress}}
                \cup {ServerDescription(MonitorAddress)} :
        /\ on_change(sd)
        /\ UNCHANGED <<reader, monitor>>
        /\ last_change' =
               [op |-> "on_change", sd |-> sd,
                accepted |-> has_server(cluster_description, sd.address),
                flip |-> IF last_change.op = "on_change"
                         THEN ~last_change.flip
                         ELSE FALSE]

\* The steps of select_servers of the callers in T.
SelectStep(T) ==
    \/ \E t \in T : SelectEnter(t)
    \/ \E t \in T : SelectLoop(t)
    \/ \E t \in T : WaitTimeout(t)
    \/ \E t \in T : SelectWake(t)

NextTwoCallers ==
    \/ SelectStep(Callers)
    \/ TwoCallerChange
    \/ Tick

SpecTwoCallers == InitTwoCallers /\ [][NextTwoCallers]_vars

\* Both threads are scheduled fairly and the clock advances.
FairSpecTwoCallers ==
    /\ SpecTwoCallers
    /\ WF_vars(Tick)
    /\ \A t \in Callers :
           /\ WF_vars(SelectLoop(t))
           /\ WF_vars(WaitTimeout(t))
           /\ WF_vars(SelectWake(t))

----------------------------------------------------------------------------
(* The first Monitor of MonitorAddress in an opened Cluster, while the
   Monitor of another server delivers replies that remove and add addresses.
   _update_servers closes the Server of a removed address, and with it its
   Monitor; an address that comes back gets a new Server and a new Monitor,
   whose thread is not modelled. *)

\* Monitor.close, called by Server.close under the Cluster's lock.
Monitor_close(m) ==
    [notify([m EXCEPT !.stopped = TRUE, !.pool_id = @ + 1]) EXCEPT
        !.closes = @ + 1]

\* The Monitor after an _update_servers that turns the Server map srv into
\* srv2: closed when the Server it belongs to is closed.
closed_with_server(m, srv, srv2) ==
    IF /\ ~m.stopped
       /\ MonitorAddress \in DOMAIN srv
       /\ MonitorAddress \notin DOMAIN srv2
    THEN Monitor_close(m)
    ELSE m

\* Server.open, called by _update_servers in Cluster.open: the thread of the
\* Monitor starts.
ServerOpen == opened /\ MonitorOpen

\* Monitor.run: self._server_description = ...; cluster.on_change(...), for
\* the Monitor of a Server of the Cluster.
DeliverToCluster ==
    /\ monitor.pc = "deliver"
    /\ on_change(monitor.result)
    /\ monitor' =
           closed_with_server(
               [monitor EXCEPT
                   !.pc = "before_wait",
                   !.server_description = monitor.result],
               servers, servers')
    /\ last_change' =
           [op |-> "on_change", sd |-> monitor.result,
            accepted |-> has_server(cluster_description,
                                    monitor.result.address),
            by |-> MonitorAddress]
    /\ UNCHANGED reader

\* on_change called by the Monitor of "b" with a reply of "b".
OtherMonitorChange ==
    \E sd \in ProbeResults("b", HostLists, {<<0, 0>>}) :
        /\ opened
        /\ sd.server_type \in ChangeTypes
        /\ sd.set_name \in {None, "rs"}
        /\ on_change(sd)
        /\ monitor' = closed_with_server(monitor, servers, servers')
        /\ last_change' =
               [op |-> "on_change", sd |-> sd,
                accepted |-> has_server(cluster_description, sd.address),
                by |-> "b"]
        /\ UNCHANGED reader

NextClosedMonitor ==
    \/ Open("t1")
    \/ ServerOpen
    \/ MonitorLoop
    \/ Attempt1
    \/ ResetPool
    \/ Attempt2
    \/ DeliverToCluster
    \/ EnterWait
    \/ WakeTimeout
    \/ OtherMonitorChange

SpecClosedMonitor == Init /\ [][NextClosedMonitor]_vars

----------------------------------------------------------------------------
(* The Servers of an opened Cluster while on_change adds and removes
   addresses. *)

\* on_change, with the Servers that its _update_servers created and closed.
OnChangeServers ==
    \E a \in Addrs : \E sd \in ProbeResults(a, HostLists, {<<0, 0>>}) :
        /\ sd.server_type \in ChangeTypes
        /\ sd.set_name \in {None, "rs"}
        /\ on_change(sd)
        /\ UNCHANGED <<reader, monitor>>
        /\ last_change' =
               [op |-> "on_change", sd |-> sd,
                accepted |-> has_server(cluster_description, sd.address),
                created |->
                    IF has_server(cluster_description, sd.address)
                    THEN created_servers(cluster_description', servers)
                    ELSE {},
                closed |->
                    IF has_server(cluster_description, sd.address)
                    THEN closed_servers(cluster_description', servers)
                    ELSE EmptyMap]

NextServers ==
    \/ Open("t1")
    \/ OnChangeServers

SpecServers == Init /\ [][NextServers]_vars

----------------------------------------------------------------------------
(* The two locks: Cluster._lock (variable lock) and Monitor._lock
   (monitor.lock), one step per acquire and release.  What the threads
   compute is left open: whether a selector matched, and whether a change
   removed the Monitor's own address, are choices.  A thread blocked in
   acquire() is at a position whose next step needs the lock free; both
   locks are threading.Lock objects, which are not reentrant. *)

\* The thread that runs Monitor.run.
MonitorThread == "monitor"

\* select_servers: `with self._lock:` is entered.
LockSelectEnter(t) ==
    /\ pc[t] = "idle"
    /\ lock = None
    /\ lock' = t
    /\ pc' = [pc EXCEPT ![t] = "loop"]
    /\ UNCHANGED <<settings, cluster_description, servers, opened, now, call,
                   outcome, last_change, description_id, reader, monitor>>

\* select_servers returns or raises: the with block is left.
LockSelectReturn(t) ==
    /\ pc[t] = "loop"
    /\ lock = t
    /\ lock' = None
    /\ pc' = [pc EXCEPT ![t] = "idle"]
    /\ UNCHANGED <<settings, cluster_description, servers, opened, now, call,
                   outcome, last_change, description_id, reader, monitor>>

\* select_servers found no server and its deadline has not passed: it goes
\* on to _request_check_all.
LockSelectMiss(t) ==
    /\ pc[t] = "loop"
    /\ lock = t
    /\ pc' = [pc EXCEPT ![t] = "request_check_all"]
    /\ UNCHANGED <<settings, cluster_description, servers, opened, lock, now,
                   call, outcome, last_change, description_id, reader,
                   monitor>>

\* _request_check_all -> Server.request_check -> Monitor.request_check:
\* `with self._lock:` of the Monitor is entered by the thread that holds the
\* Cluster lock.
LockRequestCheck(t) ==
    /\ pc[t] = "request_check_all"
    /\ lock = t
    /\ monitor.lock = None
    /\ monitor' = [monitor EXCEPT !.lock = t]
    /\ pc' = [pc EXCEPT ![t] = "request_check"]
    /\ UNCHANGED <<settings, cluster_description, servers, opened, lock, now,
                   call, outcome, last_change, description_id, reader>>

\* Condition.notify on the Monitor's condition: a thread waiting on it has
\* to take the Monitor lock again before wait() returns.
lock_notify(m) == IF m.pc = "waiting" THEN [m EXCEPT !.pc = "woken"] ELSE m

\* Monitor.request_check: notify(), and the Monitor's with block is left.
LockRequestCheckDone(t) ==
    /\ pc[t] = "request_check"
    /\ monitor.lock = t
    /\ monitor' = [lock_notify(monitor) EXCEPT !.lock = None]
    /\ pc' = [pc EXCEPT ![t] = "before_wait"]
    /\ UNCHANGED <<settings, cluster_description, servers, opened, lock, now,
                   call, outcome, last_change, description_id, reader>>

\* self._condition.wait(timeout) of select_servers releases the Cluster lock.
LockSelectWait(t) ==
    /\ pc[t] = "before_wait"
    /\ lock = t
    /\ lock' = None
    /\ pc' = [pc EXCEPT ![t] = "waiting"]
    /\ UNCHANGED <<settings, cluster_description, servers, opened, now, call,
                   outcome, last_change, description_id, reader, monitor>>

\* The wait of select_servers ends by its timeout.
LockSelectTimeout(t) ==
    /\ pc[t] = "waiting"
    /\ pc' = [pc EXCEPT ![t] = "notified"]
    /\ UNCHANGED <<settings, cluster_description, servers, opened, lock, now,
                   call, outcome, last_change, description_id, reader,
                   monitor>>

\* wait() takes the Cluster lock again before it returns.
LockSelectWake(t) ==
    /\ pc[t] = "notified"
    /\ lock = None
    /\ lock' = t
    /\ pc' = [pc EXCEPT ![t] = "loop"]
    /\ UNCHANGED <<settings, cluster_description, servers, opened, now, call,
                   outcome, last_change, description_id, reader, monitor>>

\* Variant: the ismaster call runs inside `with self._lock:` of the Monitor, so that
\* on_change is called with the Monitor lock held.
LockMonitorCheck_locked ==
    /\ monitor.pc = "loop"
    /\ monitor.lock = None
    /\ IF monitor.stopped
       THEN monitor' = [monitor EXCEPT !.pc = "exited"]
       ELSE monitor' = [monitor EXCEPT !.pc = "on_change",
                                       !.lock = MonitorThread]
    /\ UNCHANGED <<settings, cluster_description, servers, opened, lock, now,
                   pc, call, outcome, last_change, description_id, reader>>

\* Monitor.run: `while not self._stopped`, then call_ismaster_with_retry,
\* which takes no lock; the thread is then about to call on_change.
LockMonitorCheck ==
    /\ monitor.pc = "loop"
    /\ IF monitor.stopped
       THEN monitor' = [monitor EXCEPT !.pc = "exited"]
       ELSE monitor' = [monitor EXCEPT !.pc = "on_change"]
    /\ UNCHANGED <<settings, cluster_description, servers, opened, lock, now,
                   pc, call, outcome, last_change, description_id, reader>>

\* Cluster.on_change called by the Monitor thread: `with self._lock:` is
\* entered.
LockOnChangeEnter ==
    /\ monitor.pc = "on_change"
    /\ lock = None
    /\ lock' = MonitorThread
    /\ monitor' = [monitor EXCEPT !.pc = "in_on_change"]
    /\ UNCHANGED <<settings, cluster_description, servers, opened, now, pc,
                   call, outcome, last_change, description_id, reader>>

\* on_change up to notify_all: either no Server of this Monitor is closed and
\* the with block is left, waking the waiting callers, or _update_servers
\* closes the Monitor's own Server: Monitor.close sets _stopped, resets the
\* pool and calls request_check.
LockOnChangeBody ==
    /\ monitor.pc = "in_on_change"
    /\ lock = MonitorThread
    /\ \/ /\ lock' = None
          /\ pc' = [t \in Callers |->
                       IF pc[t] = "waiting" THEN "notified" ELSE pc[t]]
          /\ monitor' = [monitor EXCEPT !.pc = "before_wait"]
       \/ /\ monitor' = [monitor EXCEPT !.pc = "closing", !.stopped = TRUE]
          /\ UNCHANGED <<lock, pc>>
    /\ UNCHANGED <<settings, cluster_description, servers, opened, now, call,
                   outcome, last_change, description_id, reader>>

\* Monitor.close -> request_check, reached from on_change by the Monitor
\* thread itself: `with self._lock:` of the Monitor is entered.
LockCloseRequestCheck ==
    /\ monitor.pc = "closing"
    /\ lock = MonitorThread
    /\ monitor.lock = None
    /\ monitor' = [monitor EXCEPT !.pc = "closing_notify",
                                  !.lock = MonitorThread]
    /\ UNCHANGED <<settings, cluster_description, servers, opened, lock, now,
                   pc, call, outcome, last_change, description_id, reader>>

\* request_check leaves the Monitor's with block; on_change then calls
\* notify_all and leaves the Cluster's with block.
LockCloseDone ==
    /\ monitor.pc = "closing_notify"
    /\ monitor.lock = MonitorThread
    /\ lock = MonitorThread
    /\ monitor' = [monitor EXCEPT !.pc = "before_wait", !.lock = None]
    /\ lock' = None
    /\ pc' = [t \in Callers |->
                 IF pc[t] = "waiting" THEN "notified" ELSE pc[t]]
    /\ UNCHANGED <<settings, cluster_description, servers, opened, now, call,
                   outcome, last_change, description_id, reader>>

\* Monitor.run: `with self._lock:` around the wait is entered.
LockMonitorWaitEnter ==
    /\ monitor.pc = "before_wait"
    /\ monitor.lock = None
    /\ monitor' = [monitor EXCEPT !.pc = "locked", !.lock = MonitorThread]
    /\ UNCHANGED <<settings, cluster_description, servers, opened, lock, now,
                   pc, call, outcome, last_change, description_id, reader>>

\* self._condition.wait(self._frequency) releases the Monitor lock.
LockMonitorWait ==
    /\ monitor.pc = "locked"
    /\ monitor.lock = MonitorThread
    /\ monitor' = [monitor EXCEPT !.pc = "waiting", !.lock = None]
    /\ UNCHANGED <<settings, cluster_description, servers, opened, lock, now,
                   pc, call, outcome, last_change, description_id, reader>>

\* The Monitor's wait ends by its timeout.
LockMonitorTimeout ==
    /\ monitor.pc = "waiting"
    /\ monitor' = [monitor EXCEPT !.pc = "woken"]
    /\ UNCHANGED <<settings, cluster_description, servers, opened, lock, now,
                   pc, call, outcome, last_change, description_id, reader>>

\* wait() takes the Monitor lock again before it returns.
LockMonitorWake ==
    /\ monitor.pc = "woken"
    /\ monitor.lock = None
    /\ monitor' = [monitor EXCEPT !.pc = "leaving", !.lock = MonitorThread]
    /\ UNCHANGED <<settings, cluster_description, servers, opened, lock, now,
                   pc, call, outcome, last_change, description_id, reader>>

\* The Monitor's with block is left and the loop starts again.
LockMonitorLeave ==
    /\ monitor.pc = "leaving"
    /\ monitor.lock = MonitorThread
    /\ monitor' = [monitor EXCEPT !.pc = "loop", !.lock = None]
    /\ UNCHANGED <<settings, cluster_description, servers, opened, lock, now,
                   pc, call, outcome, last_change, description_id, reader>>

LockCallerStep(T) ==
    \E t \in T :
        \/ LockSelectEnter(t)
        \/ LockSelectReturn(t)
        \/ LockSelectMiss(t)
        \/ LockRequestCheck(t)
        \/ LockRequestCheckDone(t)
        \/ LockSelectWait(t)
        \/ LockSelectTimeout(t)
        \/ LockSelectWake(t)

LockMonitorStep ==
    \/ MonitorOpen
    \/ LockMonitorCheck
    \/ LockOnChangeEnter
    \/ LockOnChangeBody
    \/ LockCloseRequestCheck
    \/ LockCloseDone
    \/ LockMonitorWaitEnter
    \/ LockMonitorWait
    \/ LockMonitorTimeout
    \/ LockMonitorWake
    \/ LockMonitorLeave

\* The steps of one thread.
LockThreadStep(th) ==
    IF th = MonitorThread THEN LockMonitorStep ELSE LockCallerStep({th})

NextLocks == LockCallerStep(Callers) \/ LockMonitorStep

SpecLocks == Init /\ [][NextLocks]_vars

TypeOK ==
    /\ opened \in BOOLEAN
    /\ lock \in {None, MonitorThread} \cup Callers
    /\ monitor.lock \in {None, MonitorThread} \cup Callers
    /\ now \in 0..(2 * MaxTime)
    /\ cluster_description.cluster_type \in ClusterType

----------------------------------------------------------------------------
(* Properties. *)

\* The last step was an on_change call that the Cluster did not ignore.
Changed == last_change.op = "on_change" /\ last_change.accepted

\* C1: after any sequence of on_change calls on a seeded description, the
\* cluster type is ReplicaSetWithPrimary if and only if some server of the
\* description has type RSPrimary.
C1_WithPrimaryIffPrimary ==
    (cluster_description.cluster_type = ReplicaSetWithPrimary)
        <=> (\E a \in DOMAIN cluster_description.server_descriptions :
                cluster_description.server_descriptions[a].server_type
                    = RSPrimary)

\* C6: if the cluster type is Single, then after an on_change call with any
\* server type it is still Single and the description still holds exactly
\* the one seed address; only that server's description is replaced.
C6_SingleIsSticky ==
    [][cluster_description.cluster_type = Single =>
        /\ cluster_description'.cluster_type = Single
        /\ DOMAIN cluster_description'.server_descriptions = settings.seeds
        /\ Cardinality(settings.seeds) = 1
        /\ cluster_description'.set_name = cluster_description.set_name
        /\ \A a \in settings.seeds :
            cluster_description'.server_descriptions[a] =
                IF last_change'.sd.address = a
                THEN last_change'.sd
                ELSE cluster_description.server_descriptions[a]]_vars

\* A Single cluster has processed a Standalone reply, which an Unknown
\* cluster would have removed.
C6_Witness ==
    /\ cluster_description.cluster_type = Single
    /\ Changed
    /\ last_change.sd.server_type = Standalone
    /\ cluster_description.server_descriptions[last_change.sd.address]
           = last_change.sd

\* C7: on_change with a ServerDescription whose address is not in the
\* current description changes nothing: cluster type, set name, address
\* set, every server's description and the Server map stay as they were.
C7_IgnoredChangeIsNoop ==
    [][(/\ last_change'.op = "on_change"
        /\ last_change'.sd.address
               \notin DOMAIN cluster_description.server_descriptions)
       => /\ cluster_description' = cluster_description
          /\ servers' = servers
          /\ opened' = opened]_vars

\* A reply that lists its own address among its hosts was dropped.
C7_Witness ==
    /\ last_change.op = "on_change"
    /\ ~last_change.accepted
    /\ last_change.sd.address \in last_change.sd.all_hosts
    /\ last_change.sd.address
           \notin DOMAIN cluster_description.server_descriptions
    /\ cluster_description.server_descriptions # EmptyMap

Finished(t) ==
    outcome[t].kind \in {"servers", "ConnectionFailure", "ConfigurationError"}

\* C3 as stated: every select_servers call ends in one of two ways, with a
\* non-empty list of Servers or with ConnectionFailure.
C3_TwoOutcomes ==
    \A t \in Callers :
        Finished(t) =>
            \/ outcome[t].kind = "servers" /\ DOMAIN outcome[t].servers # {}
            \/ outcome[t].kind = "ConnectionFailure"

\* C3, amended: every select_servers call eventually finishes; it raises
\* ConfigurationError on entry, or returns a non-empty list of Servers, or,
\* once the time it read is past its deadline and the selector still matches
\* nothing, raises ConnectionFailure.  It never returns an empty list and
\* never waits forever, even if no Monitor delivers a change.
C3_SelectTerminates ==
    /\ \A t \in {"t1"} : (pc[t] # "idle") ~> (pc[t] = "idle" /\ Finished(t))
    /\ [][\A t \in Callers :
            (pc[t] # "idle" /\ pc'[t] = "idle") =>
                \/ /\ outcome'[t].kind = "servers"
                   /\ DOMAIN outcome'[t].servers # {}
                \/ /\ outcome'[t].kind = "ConnectionFailure"
                   /\ now > call[t].end_time
                   /\ _apply_selector(cluster_description,
                                      call[t].selector) = {}]_vars

\* A call waited, timed out and raised ConnectionFailure.
C3_Witness ==
    \E t \in Callers : outcome[t].kind = "ConnectionFailure" /\ now > 0

C5_SingleBypassesSelector ==
    [][\A t \in Callers :
        (/\ pc[t] = "loop"
         /\ pc'[t] # "loop"
         /\ cluster_description.cluster_type = Single) =>
            IF \E a \in settings.seeds :
                   cluster_description.server_descriptions[a].server_type
                       # Unknown
            THEN /\ outcome'[t].kind = "servers"
                 /\ DOMAIN outcome'[t].servers = settings.seeds
                 /\ pc'[t] = "idle"
            ELSE IF call[t].now > call[t].end_time
            THEN /\ outcome'[t].kind = "ConnectionFailure"
                 /\ pc'[t] = "idle"
            ELSE /\ pc'[t] = "waiting"
                 /\ outcome'[t] = outcome[t]]_vars

\* A writable selector is about to return the RSSecondary of a Single
\* cluster.
C5_Witness ==
    \E t \in Callers :
        /\ pc[t] = "loop"
        /\ call[t].selector = "writable"
        /\ cluster_description.cluster_type = Single
        /\ \E a \in call[t].server_descriptions :
               cluster_description.server_descriptions[a].server_type
                   = RSSecondary

Incompatible(cd) ==
    \E a \in DOMAIN cd.server_descriptions :
        LET s == cd.server_descriptions[a]
        IN  \/ /\ s.min_wire_version # NoVersion
               /\ s.min_wire_version > MAX_SUPPORTED_WIRE_VERSION
            \/ /\ s.max_wire_version # NoVersion
               /\ s.max_wire_version < MIN_SUPPORTED_WIRE_VERSION

\* C9: a select_servers call made while the description holds a server with
\* an incompatible wire version range raises ConfigurationError without
\* applying the selector, waiting or returning a server; a call made while
\* there is none raises no ConfigurationError.
C9_IncompatibleRaises ==
    [][\A t \in Callers :
        pc[t] = "idle" =>
            /\ pc'[t] = "loop" => ~Incompatible(cluster_description)
            /\ (/\ outcome'[t].kind = "ConfigurationError"
                /\ outcome'[t] # outcome[t]) =>
                   /\ Incompatible(cluster_description)
                   /\ pc'[t] = "idle"
                   /\ call'[t] = NoCall
                   /\ lock' = None]_vars

\* A call raised ConfigurationError because of a server that is too new.
C9_Witness ==
    \E t \in Callers :
        /\ outcome[t].kind = "ConfigurationError"
        /\ \E a \in DOMAIN cluster_description.server_descriptions :
               cluster_description.server_descriptions[a].min_wire_version
                   > MAX_SUPPORTED_WIRE_VERSION

C11_CloseClosesServers ==
    [][\A t \in Callers :
        (/\ outcome'[t] # outcome[t]
         /\ outcome'[t].kind \in {"closed", "NotImplementedError"}
         /\ \A u \in Callers : outcome[u].kind # "closed") =>
            /\ outcome'[t].kind = "closed"
            /\ \A a \in DOMAIN servers :
                   \/ a \notin DOMAIN servers'
                   \/ servers'[a].monitor # "started"]_vars

----------------------------------------------------------------------------
(* The transitions of the cluster description, read off the steps of
   SpecTransition: the description before the step, the ServerDescription
   the step logs, the description after it. *)

cd_addresses == DOMAIN cluster_description.server_descriptions

cd_type == cluster_description.cluster_type

\* The step is an on_change call that is not ignored.
Transition ==
    /\ last_change'.op = "on_change"
    /\ last_change'.sd.address \in cd_addresses

\* The ServerDescription that the step processes.
Received == last_change'.sd

\* Every address the step adds holds a fresh Unknown description.
AddedAreUnknown ==
    \A a \in cd_addresses' \ cd_addresses :
        cluster_description'.server_descriptions[a] = ServerDescription(a)

\* The cluster has no set name yet (it adopts the reply's) or has the reply's.
SetNameMatches ==
    \/ cluster_description.set_name = None
    \/ cluster_description.set_name = Received.set_name

\* The servers other than the replying one that were RSPrimary.
OtherPrimaries ==
    {a \in cd_addresses \ {Received.address} :
        cluster_description.server_descriptions[a].server_type = RSPrimary}

\* C12: for a ServerDescription sd whose address is in the description, the
\* addresses after the transition are among the addresses before it and
\* sd.all_hosts, and every added address has a fresh Unknown description.
C12_AddressesFromHosts ==
    [][Transition =>
        /\ cd_addresses' \subseteq cd_addresses \cup Received.all_hosts
        /\ AddedAreUnknown]_vars

\* A transition has added an address that was not a seed.
C12_Witness ==
    /\ Changed
    /\ "c" \in cd_addresses
    /\ "c" \in last_change.sd.all_hosts
    /\ cluster_description.server_descriptions["c"] = ServerDescription("c")

\* C13: in a replica-set cluster, after an RSPrimary reply whose set name
\* matches or is adopted, the addresses are exactly sd.all_hosts: the listed
\* ones that were absent are added as Unknown, the present ones that are not
\* listed are removed; the cluster type is ReplicaSetWithPrimary.
C13_PrimaryIsAuthoritative ==
    [][(/\ Transition
        /\ cd_type \in {ReplicaSetNoPrimary, ReplicaSetWithPrimary}
        /\ Received.server_type = RSPrimary
        /\ SetNameMatches) =>
            /\ cd_addresses' = Received.all_hosts
            /\ AddedAreUnknown
            /\ cd_type' = ReplicaSetWithPrimary
            /\ cluster_description'.set_name = Received.set_name]_vars

\* A primary's reply has added "c" and removed the seed "a" of a replica set.
C13_Witness ==
    /\ Changed
    /\ settings.set_name # None
    /\ last_change.sd.server_type = RSPrimary
    /\ last_change.sd.set_name = settings.set_name
    /\ cd_addresses = last_change.sd.all_hosts
    /\ "c" \in cd_addresses
    /\ "a" \notin cd_addresses
    /\ cd_type = ReplicaSetWithPrimary

\* C14: in a ReplicaSetNoPrimary cluster, an RSSecondary, RSArbiter or
\* RSOther reply whose set name matches or is adopted removes no address: the
\* addresses become the previous ones united with sd.all_hosts, the new ones
\* are Unknown and the type stays ReplicaSetNoPrimary.
C14_MemberOnlyAdds ==
    [][(/\ Transition
        /\ cd_type = ReplicaSetNoPrimary
        /\ Received.server_type \in {RSSecondary, RSArbiter, RSOther}
        /\ SetNameMatches) =>
            /\ cd_addresses' = cd_addresses \cup Received.all_hosts
            /\ AddedAreUnknown
            /\ cd_type' = ReplicaSetNoPrimary]_vars

\* A secondary's reply has added "c" and kept "a", which it does not list.
C14_Witness ==
    /\ Changed
    /\ settings.set_name # None
    /\ last_change.sd.server_type = RSSecondary
    /\ last_change.sd.set_name = settings.set_name
    /\ last_change.primaries = {}
    /\ cd_type = ReplicaSetNoPrimary
    /\ "a" \notin last_change.sd.all_hosts
    /\ {"a", "c"} \subseteq cd_addresses

\* C15: an RSPrimary reply whose set name differs from the cluster's set name
\* removes sd.address, adds and removes no other address, and leaves the
\* cluster type ReplicaSetNoPrimary, whether it was ReplicaSetNoPrimary or
\* ReplicaSetWithPrimary before.
C15_WrongSetNamePrimary ==
    [][(/\ Transition
        /\ cd_type \in {ReplicaSetNoPrimary, ReplicaSetWithPrimary}
        /\ Received.server_type = RSPrimary
        /\ cluster_description.set_name # None
        /\ cluster_description.set_name # Received.set_name) =>
            /\ cd_addresses' = cd_addresses \ {Received.address}
            /\ cd_type' = ReplicaSetNoPrimary]_vars

\* C16: every reachable description has at most one RSPrimary: an RSPrimary
\* reply with a matching set name replaces every other server that was
\* RSPrimary by a fresh Unknown description, without round trip times.
C16_AtMostOnePrimary ==
    [][/\ Cardinality(primaries(cluster_description)) <= 1
       /\ Cardinality(primaries(cluster_description')) <= 1
       /\ (/\ Transition
           /\ cd_type \in {ReplicaSetNoPrimary, ReplicaSetWithPrimary}
           /\ Received.server_type = RSPrimary
           /\ SetNameMatches) =>
              \A a \in OtherPrimaries \cap cd_addresses' :
                  cluster_description'.server_descriptions[a]
                      = ServerDescription(a)]_vars

\* A new primary has replied and the prior primary is Unknown again.
C16_Witness ==
    /\ Changed
    /\ last_change.sd.server_type = RSPrimary
    /\ last_change.sd.address \in cd_addresses
    /\ primaries(cluster_description) = {last_change.sd.address}
    /\ \E a \in last_change.primaries \cap cd_addresses :
           /\ a # last_change.sd.address
           /\ cluster_description.server_descriptions[a]
                  = ServerDescription(a)

\* C17: in a ReplicaSetWithPrimary cluster, an Unknown or RSGhost description
\* of an address leaves the address in the description; the type becomes
\* ReplicaSetNoPrimary unless another server is RSPrimary, and stays
\* ReplicaSetWithPrimary if one is.
C17_LostPrimary ==
    [][(/\ Transition
        /\ cd_type = ReplicaSetWithPrimary
        /\ Received.server_type \in {Unknown, RSGhost}) =>
            /\ cd_addresses' = cd_addresses
            /\ cluster_description'.server_descriptions[Received.address]
                   = Received
            /\ cd_type' = IF OtherPrimaries # {}
                          THEN ReplicaSetWithPrimary
                          ELSE ReplicaSetNoPrimary]_vars

\* The primary became Unknown: it is still described and the cluster has no
\* primary.
C17_Witness ==
    /\ Changed
    /\ last_change.sd.server_type = Unknown
    /\ last_change.primaries = {last_change.sd.address}
    /\ last_change.sd.address \in cd_addresses
    /\ cd_type = ReplicaSetNoPrimary

\* C18: in a replica-set cluster, a Standalone or Mongos reply removes the
\* replying address and no other; a ReplicaSetWithPrimary cluster whose
\* primary is removed becomes ReplicaSetNoPrimary.
C18_NonMemberRemoved ==
    [][(/\ Transition
        /\ cd_type \in {ReplicaSetNoPrimary, ReplicaSetWithPrimary}
        /\ Received.server_type \in {Standalone, Mongos}) =>
            /\ cd_addresses' = cd_addresses \ {Received.address}
            /\ \A a \in cd_addresses' :
                   cluster_description'.server_descriptions[a]
                       = cluster_description.server_descriptions[a]
            /\ cd_type' = IF cd_type = ReplicaSetWithPrimary
                             /\ OtherPrimaries # {}
                          THEN ReplicaSetWithPrimary
                          ELSE ReplicaSetNoPrimary]_vars

\* The primary replied as a standalone: it is removed and the cluster has no
\* primary.
C18_Witness ==
    /\ Changed
    /\ last_change.sd.server_type = Standalone
    /\ last_change.primaries = {last_change.sd.address}
    /\ last_change.sd.address \notin cd_addresses
    /\ cd_addresses # {}
    /\ cd_type = ReplicaSetNoPrimary

\* C19: in an Unknown cluster the transition is chosen by sd's server type:
\* Standalone removes sd.address and the type stays Unknown; Unknown or
\* RSGhost changes neither the type nor the addresses; Mongos makes the type
\* Sharded; RSPrimary makes it ReplicaSetWithPrimary and runs the primary's
\* update; RSSecondary, RSArbiter or RSOther makes it ReplicaSetNoPrimary and
\* runs the member's update.
C19_FromUnknown ==
    [][(Transition /\ cd_type = ClusterUnknown) =>
        CASE Received.server_type = Standalone ->
                 /\ cd_type' = ClusterUnknown
                 /\ cd_addresses' = cd_addresses \ {Received.address}
          [] Received.server_type \in {Unknown, RSGhost} ->
                 /\ cd_type' = ClusterUnknown
                 /\ cd_addresses' = cd_addresses
          [] Received.server_type = Mongos ->
                 /\ cd_type' = Sharded
                 /\ cd_addresses' = cd_addresses
          [] Received.server_type = RSPrimary ->
                 /\ cd_type' = ReplicaSetWithPrimary
                 /\ cd_addresses' = Received.all_hosts
                 /\ AddedAreUnknown
                 /\ cluster_description'.set_name = Received.set_name
          [] Received.server_type \in {RSSecondary, RSArbiter, RSOther} ->
                 /\ cd_type' = ReplicaSetNoPrimary
                 /\ cd_addresses' = cd_addresses \cup Received.all_hosts
                 /\ AddedAreUnknown
                 /\ cluster_description'.set_name = Received.set_name]_vars

\* An Unknown cluster heard from a secondary and discovered "c".
C19_Witness ==
    /\ Changed
    /\ settings.set_name = None
    /\ Cardinality(settings.seeds) = 2
    /\ last_change.sd.server_type = RSSecondary
    /\ last_change.sd.all_hosts = {"b", "c"}
    /\ cd_type = ReplicaSetNoPrimary
    /\ cd_addresses = {"a", "b", "c"}
    /\ cluster_description.server_descriptions["a"] = ServerDescription("a")
    /\ cluster_description.server_descriptions["b"] = last_change.sd

\* C20: in a Sharded cluster, a reply that is not from a mongos (Unknown
\* included) removes the replying address and a Mongos reply only replaces
\* that server's description; no address is added and the type stays Sharded.
C20_ShardedOnlyShrinks ==
    [][(Transition /\ cd_type = Sharded) =>
        /\ cd_type' = Sharded
        /\ cd_addresses' = IF Received.server_type = Mongos
                           THEN cd_addresses
                           ELSE cd_addresses \ {Received.address}
        /\ \A a \in cd_addresses' :
               cluster_description'.server_descriptions[a] =
                   IF a = Received.address THEN Received
                   ELSE cluster_description.server_descriptions[a]]_vars

\* A Sharded cluster has removed a server that became Unknown.
C20_Witness ==
    /\ Changed
    /\ cd_type = Sharded
    /\ last_change.sd.server_type = Unknown
    /\ last_change.sd.address \notin cd_addresses
    /\ cd_addresses # {}

\* The servers that are RSPrimary after the step.
PrimariesAfter ==
    {a \in cd_addresses' :
        cluster_description'.server_descriptions[a].server_type = RSPrimary}

\* C21: in a ReplicaSetWithPrimary cluster, an RSSecondary, RSArbiter or
\* RSOther reply adds no address, removes the replying address if and only if
\* its set name differs from the cluster's, and the type stays
\* ReplicaSetWithPrimary exactly when some server is RSPrimary afterwards.
C21_MemberWithPrimary ==
    [][(/\ Transition
        /\ cd_type = ReplicaSetWithPrimary
        /\ Received.server_type \in {RSSecondary, RSArbiter, RSOther}) =>
            /\ cd_addresses' =
                   IF Received.set_name # cluster_description.set_name
                   THEN cd_addresses \ {Received.address}
                   ELSE cd_addresses
            /\ cd_type' = IF PrimariesAfter # {}
                          THEN ReplicaSetWithPrimary
                          ELSE ReplicaSetNoPrimary]_vars

\* With a primary known, a secondary listed "c", which is not added.
C21_Witness ==
    /\ Changed
    /\ last_change.cluster_type = ReplicaSetWithPrimary
    /\ last_change.sd.server_type = RSSecondary
    /\ last_change.sd.set_name = cluster_description.set_name
    /\ "c" \in last_change.sd.all_hosts
    /\ "c" \notin cd_addresses
    /\ last_change.sd.address \in cd_addresses
    /\ cd_type = ReplicaSetWithPrimary

\* The replying server is still described, with the description it sent.
KeepsReplying ==
    /\ Received.address \in cd_addresses'
    /\ cluster_description'.server_descriptions[Received.address] = Received

\* The step is the first replica-set reply to a ReplicaSetNoPrimary cluster
\* that has no set name.
FirstMemberReply ==
    /\ Transition
    /\ cd_type = ReplicaSetNoPrimary
    /\ cluster_description.set_name = None
    /\ Received.server_type \in {RSPrimary, RSSecondary, RSArbiter, RSOther}

\* A non-primary replies to a ReplicaSetNoPrimary cluster with another set
\* name than the cluster's.
WrongNameMemberReply ==
    /\ Transition
    /\ cd_type = ReplicaSetNoPrimary
    /\ cluster_description.set_name # None
    /\ Received.server_type \in {RSSecondary, RSArbiter, RSOther}
    /\ Received.set_name # cluster_description.set_name

\* The replying address is removed; nothing is added, the set name is kept.
RemovesReplying ==
    /\ cd_addresses' = cd_addresses \ {Received.address}
    /\ cluster_description'.set_name = cluster_description.set_name

\* C22 as stated: in a ReplicaSetNoPrimary cluster without a set name, the
\* first RSPrimary, RSSecondary, RSArbiter or RSOther reply gives the cluster
\* its set name and the replying server is kept; with a set name, a
\* non-primary reply with another name removes the replying address and adds
\* none of its hosts.
C22_AdoptKeepsReplying ==
    [][/\ FirstMemberReply =>
            /\ cluster_description'.set_name = Received.set_name
            /\ KeepsReplying
       /\ WrongNameMemberReply => RemovesReplying]_vars

\* C22, amended: as above, but the replying server is kept only if it is not
\* an RSPrimary or if its reply lists its own address; a primary that its own
\* host list omits is removed together with the other unlisted hosts.
C22_AdoptSetName ==
    [][/\ FirstMemberReply =>
            /\ cluster_description'.set_name = Received.set_name
            /\ IF Received.server_type = RSPrimary
                  /\ Received.address \notin Received.all_hosts
               THEN Received.address \notin cd_addresses'
               ELSE KeepsReplying
       /\ WrongNameMemberReply => RemovesReplying]_vars

\* A cluster without a set name has adopted the name of a primary that is
\* in its own host list.
C22_Witness ==
    /\ Changed
    /\ last_change.cluster_type = ReplicaSetNoPrimary
    /\ last_change.set_name = None
    /\ last_change.sd.server_type = RSPrimary
    /\ cluster_description.set_name = last_change.sd.set_name
    /\ last_change.sd.address \in cd_addresses
    /\ cluster_description.server_descriptions[last_change.sd.address]
           = last_change.sd

----------------------------------------------------------------------------
(* The Monitor. *)

\* The round of call_ismaster_with_retry is over: it returned or raised.
RoundOver == monitor.pc \in {"deliver", "crashed"}

C24_AllFailedReturnsUnknown ==
    (RoundOver /\ monitor.errors = monitor.attempts) =>
        /\ monitor.pc = "deliver"
        /\ monitor.result =
               ServerDescription(monitor.server_description.address)

\* C25: cluster.reset_pool is called once for each failed attempt of a
\* round: twice after two failures, never after a first success.
C25_ResetPerFailedAttempt ==
    RoundOver => monitor.resets = monitor.errors

\* C26: after request_check the next probe starts without the Monitor
\* sleeping out a heartbeat interval: no wait of the Monitor ends by its
\* timeout while a requested check has not been started.
C26_RequestCheckWakes ==
    [][(/\ monitor.pc = "waiting"
        /\ monitor'.pc = "loop"
        /\ monitor'.woken = "timeout") => ~monitor.check_requested]_vars

\* C27: after Monitor.close() the loop of run() eventually exits; close sets
\* the stop flag, then resets the Monitor's pool, then notifies the
\* condition; the loop starts no probe once it has tested a set stop flag.
C27_CloseStopsMonitor ==
    /\ monitor.stopped ~> (monitor.pc \in {"exited", "crashed"})
    /\ [](monitor.pool_id > 0 => monitor.stopped)
    /\ [](monitor.close_pc = "notify" => monitor.pool_id > monitor.closes)
    /\ [](monitor.closes > 0 => monitor.pool_id > 0)
    /\ [](monitor.pc = "exited" => monitor.stopped)
    /\ [][(monitor.pc = "loop" /\ monitor.stopped)
              => monitor'.pc \in {"loop", "exited"}]_vars
    /\ [][monitor.pc = "exited" => monitor'.pc = "exited"]_vars

\* The waiting Monitor was woken by close() and left its loop.
C27_Witness ==
    /\ monitor.pc = "exited"
    /\ monitor.closes = 1
    /\ monitor.woken = "notify"
    /\ ~monitor.check_requested

\* C28: a published ClusterDescription is never changed: while a thread
\* holds the object that Cluster.description returned, the object holds
\* what it held when it was returned.
C28_PublishedIsImmutable ==
    (reader.id # -1 /\ reader.id = description_id) =>
        cluster_description = reader.seen

----------------------------------------------------------------------------
(* Construction and parsing. *)

ClassifiedOk(d, t) ==
    IF d.isreplicaset THEN t = RSGhost
    ELSE IF d.setName # None
    THEN t = (IF d.hidden THEN RSOther
              ELSE IF d.ismaster THEN RSPrimary
              ELSE IF d.secondary THEN RSSecondary
              ELSE IF d.arbiterOnly THEN RSArbiter
              ELSE RSOther)
    ELSE IF d.msg = "isdbgrid" THEN t = Mongos
    ELSE t = Standalone

\* C30 as stated: a reply whose ok is not 1 is Unknown; otherwise the first
\* matching rule decides: isreplicaset, setName (hidden, ismaster, secondary,
\* arbiterOnly, else RSOther), msg = isdbgrid, else Standalone.
C30_OkIsOne ==
    last_change.op = "ismaster" =>
        IF last_change.doc.ok # 1
        THEN last_change.server_type = Unknown
        ELSE ClassifiedOk(last_change.doc, last_change.server_type)

\* C30, amended: a reply whose ok is absent or zero is Unknown; any other ok
\* lets the first matching rule decide, in the stated order.
C30_FirstMatchingRule ==
    last_change.op = "ismaster" =>
        IF last_change.doc.ok \in {Absent, 0}
        THEN last_change.server_type = Unknown
        ELSE ClassifiedOk(last_change.doc, last_change.server_type)

\* A reply with a setName and msg = isdbgrid was classified by its setName.
C30_Witness ==
    /\ last_change.op = "ismaster"
    /\ last_change.doc.ok = 1
    /\ last_change.doc.setName = "rs"
    /\ last_change.doc.msg = "isdbgrid"
    /\ last_change.doc.secondary
    /\ ~last_change.doc.ismaster
    /\ ~last_change.doc.hidden
    /\ ~last_change.doc.isreplicaset
    /\ last_change.server_type = RSSecondary

----------------------------------------------------------------------------
(* Selection while Monitors deliver changes. *)

\* C34: select_servers never returns servers while the description holds a
\* server whose wire version range is incompatible: a caller that waited
\* while such a server was delivered fails with ConfigurationError instead of
\* returning a match from that description.
C34_NoReturnWhenIncompatible ==
    [][\A t \in Callers :
        (pc[t] = "loop" /\ pc'[t] = "idle") =>
            IF check_compatible_raises(cluster_description)
            THEN outcome'[t].kind = "ConfigurationError"
            ELSE outcome'[t].kind # "ConfigurationError"]_vars

----------------------------------------------------------------------------
(* What every sequence of on_change calls preserves. *)

\* C37: once the cluster's set name is not None (configured, or adopted from
\* the first replica-set member's reply), no on_change call changes it; a
\* cluster without a set name takes no other name than that of the reply it
\* processes.
C37_SetNameIsStable ==
    [][/\ cluster_description.set_name # None =>
              cluster_description'.set_name = cluster_description.set_name
       /\ (/\ cluster_description.set_name = None
           /\ cluster_description'.set_name # None) =>
              /\ Transition
              /\ cluster_description'.set_name = Received.set_name]_vars

\* A cluster that adopted the name "rs" has since processed a primary's reply
\* with another name and kept "rs".
C37_Witness ==
    /\ settings.set_name = None
    /\ cluster_description.set_name = "rs"
    /\ Changed
    /\ last_change.set_name = "rs"
    /\ last_change.sd.set_name = "other"
    /\ last_change.sd.server_type = RSPrimary

\* The changes of cluster type that the claim allows.
AllowedTypeChange(old, new) ==
    \/ new = old
    \/ /\ old = ClusterUnknown
       /\ new \in {Sharded, ReplicaSetNoPrimary, ReplicaSetWithPrimary}
    \/ /\ old = ReplicaSetNoPrimary
       /\ new = ReplicaSetWithPrimary
    \/ /\ old = ReplicaSetWithPrimary
       /\ new = ReplicaSetNoPrimary

\* C38: under any sequence of on_change calls the cluster type changes only
\* from Unknown to Sharded, ReplicaSetNoPrimary or ReplicaSetWithPrimary, or
\* between ReplicaSetNoPrimary and ReplicaSetWithPrimary; Sharded and Single
\* never change and no type changes back to Unknown.
C38_TypeChangePaths ==
    [][/\ AllowedTypeChange(cd_type, cd_type')
       /\ cd_type \in {Sharded, Single} => cd_type' = cd_type
       /\ cd_type # ClusterUnknown => cd_type' # ClusterUnknown]_vars

\* A cluster that started Unknown has become a replica set with a primary and
\* has then lost the primary.
C38_Witness ==
    /\ settings.set_name = None
    /\ Cardinality(settings.seeds) = 2
    /\ Changed
    /\ last_change.cluster_type = ReplicaSetWithPrimary
    /\ cd_type = ReplicaSetNoPrimary

\* C39: in every reachable description of type ReplicaSetNoPrimary or
\* ReplicaSetWithPrimary, every server of type RSPrimary, RSSecondary,
\* RSArbiter or RSOther reports the cluster's set name, and no server has
\* type Standalone or Mongos.
C39_MembersShareSetName ==
    cd_type \in {ReplicaSetNoPrimary, ReplicaSetWithPrimary} =>
        \A a \in cd_addresses :
            LET s == cluster_description.server_descriptions[a]
            IN  /\ s.server_type \in {RSPrimary, RSSecondary, RSArbiter,
                                      RSOther} =>
                       s.set_name = cluster_description.set_name
                /\ s.server_type \notin {Standalone, Mongos}

\* A member with another set name was removed from a replica set that keeps
\* a member with the cluster's set name.
C39_Witness ==
    /\ cd_type \in {ReplicaSetNoPrimary, ReplicaSetWithPrimary}
    /\ Changed
    /\ last_change.sd.server_type \in {RSSecondary, RSArbiter, RSOther}
    /\ last_change.sd.set_name # cluster_description.set_name
    /\ last_change.sd.address \notin cd_addresses
    /\ \E a \in cd_addresses :
           /\ cluster_description.server_descriptions[a].server_type
                  = RSSecondary
           /\ cluster_description.server_descriptions[a].set_name
                  = cluster_description.set_name

----------------------------------------------------------------------------
(* Several waiters. *)

\* The step is an on_change call that the Cluster does not ignore.
AcceptedChangeStep ==
    /\ last_change' # last_change
    /\ last_change'.op = "on_change"
    /\ last_change'.accepted

\* The description satisfies the selector of t's call.
Satisfied(t) ==
    /\ call[t].selector # None
    /\ _apply_selector(cluster_description, call[t].selector) # {}

\* The description no longer satisfies the selector of t's call.
Unsatisfied(t) ==
    /\ call[t].selector # None
    /\ _apply_selector(cluster_description, call[t].selector) = {}

\* t's call has returned servers.
Returned(t) == pc[t] = "idle" /\ outcome[t].kind = "servers"

----------------------------------------------------------------------------
(* The Servers. *)

----------------------------------------------------------------------------
(* A Monitor whose Server was closed. *)

\* C40: a Monitor that was closed because its address was removed never
\* changes the cluster description afterwards: the probe result it delivers
\* after its close is ignored by on_change, also when the address has been
\* added back and is watched by a new Monitor.
C40_ClosedMonitorIsIgnored ==
    [][(/\ monitor.stopped
        /\ monitor.pc = "deliver"
        /\ monitor'.pc # "deliver") =>
            cluster_description' = cluster_description]_vars


----------------------------------------------------------------------------
\* C35: the Cluster lock and the Monitor lock never deadlock.  A thread that
\* holds the Cluster lock may take the Monitor lock (select_servers through
\* request_check, on_change through Server.close), but the Monitor thread
\* never holds its own lock while it acquires the Cluster lock in on_change;
\* in every reachable state the holder of the Monitor lock can take a step,
\* the holder of the Cluster lock can take a step or waits for the Monitor
\* lock held by another thread, and so some thread can always make progress.
C35_NoLockDeadlock ==
    /\ monitor.pc = "on_change" => monitor.lock # MonitorThread
    /\ monitor.lock # None => ENABLED LockThreadStep(monitor.lock)
    /\ lock # None =>
           \/ ENABLED LockThreadStep(lock)
           \/ monitor.lock \notin {None, lock}
    /\ ENABLED NextLocks

\* A caller holds the Cluster lock and, inside request_check, the Monitor
\* lock, while the Monitor thread is about to acquire the Cluster lock in
\* on_change.
C35_Witness ==
    /\ lock \in Callers
    /\ monitor.lock = lock
    /\ monitor.pc = "on_change"

====
